---- MODULE Spec2Model ----
(***************************************************************************)
(* Model of the flight agent's scheduler (src/scheduler.py): one run of    *)
(* main() reads routes.yaml, expands the date rules, exchanges the         *)
(* credentials, queries the offer-search API once per expanded route with  *)
(* request_with_retry, and rewrites the best-offer map, the alert feed,    *)
(* the run statistics and the history log.  Runs follow one another; the   *)
(* files persist between them.                                             *)
(***************************************************************************)
EXTENDS Integers, Sequences, FiniteSets, TLC

(***************************************************************************)
(* Bounds of the model.                                                    *)
(***************************************************************************)
MaxRuns == 3          \* runs of main() in one behaviour
Max429Env == 2        \* largest MAX_429_BEFORE_ABORT the environment sets
MaxTurns == 4         \* runs of main() in one behaviour of the round-robin rotation

(***************************************************************************)
(* Python's None, for numeric fields and for string fields.                *)
(***************************************************************************)
None == -1
NoneStr == "None"

(***************************************************************************)
(* datetime.date: a date is its proleptic Gregorian ordinal, as            *)
(* date.toordinal() computes it; weekday() is Monday = 0 .. Sunday = 6.    *)
(***************************************************************************)
IsLeap(y) == (y % 4 = 0) /\ ((y % 100 # 0) \/ (y % 400 = 0))

DaysInMonth(y, m) ==
    IF m = 2 THEN (IF IsLeap(y) THEN 29 ELSE 28)
    ELSE IF m \in {4, 6, 9, 11} THEN 30 ELSE 31

RECURSIVE DaysBeforeMonth(_, _)
DaysBeforeMonth(y, m) ==
    IF m <= 1 THEN 0 ELSE DaysBeforeMonth(y, m - 1) + DaysInMonth(y, m - 1)

DaysBeforeYear(y) ==
    (y - 1) * 365 + ((y - 1) \div 4) - ((y - 1) \div 100) + ((y - 1) \div 400)

date(y, m, d) == DaysBeforeYear(y) + DaysBeforeMonth(y, m) + d

weekday(ord) == (ord + 6) % 7

(***************************************************************************)
(* routes.yaml.  validate_immutable demands the origins CGH and GRU and    *)
(* the destinations CWB, FCO and NVT, so a configuration that passes       *)
(* startup has at least three routes.                                      *)
(***************************************************************************)
NoRuleParams == [max_pairs |-> 0]

RouteRome ==
    [id |-> "ROMA", origin |-> "GRU", destination |-> "FCO",
     adults |-> 1, children |-> 0, cabin |-> "ECONOMY",
     rule |-> "ROME_15D_WINDOW",
     rule_params |-> [trip_days |-> 15, max_pairs |-> 2, step_days |-> 4,
                      start_mm_dd |-> <<9, 1>>,
                      latest_return_mm_dd |-> <<10, 5>>],
     departure_date |-> None, return_date |-> None,
     watch |-> [max_stops |-> 1, prefer_airlines |-> {"AZ"},
                target_price_total |-> 500, alert_drop_pct |-> 10]]

RouteWeekend ==
    [id |-> "CWB", origin |-> "CGH", destination |-> "CWB",
     adults |-> 1, children |-> 0, cabin |-> "ECONOMY",
     rule |-> "WEEKEND_WINDOW",
     rule_params |-> [start_offset_days |-> 60, horizon_days |-> 10,
                      max_pairs |-> 1, max_trip_len_days |-> 4,
                      depart_dows |-> {4, 5}, return_dows |-> {6, 0}],
     departure_date |-> None, return_date |-> None,
     watch |-> [max_stops |-> None, prefer_airlines |-> {},
                target_price_total |-> 400, alert_drop_pct |-> 10]]

RouteFixed ==
    [id |-> "NVT", origin |-> "CGH", destination |-> "NVT",
     adults |-> 1, children |-> 0, cabin |-> "ECONOMY",
     rule |-> "",
     rule_params |-> NoRuleParams,
     departure_date |-> date(2027, 1, 15), return_date |-> date(2027, 1, 18),
     watch |-> [max_stops |-> None, prefer_airlines |-> {},
                target_price_total |-> None, alert_drop_pct |-> 0]]

RoutesYaml == <<RouteRome, RouteWeekend, RouteFixed>>

(* Other routes.yaml contents: rule parameters of the two date rules, a    *)
(* route of unknown rule without dates, a route without origin, two routes *)
(* without id that differ in cabin and dates, a list short of a required   *)
(* destination, and no list.                                               *)
RomeParams ==
    [trip_days : {7, 15}, max_pairs : {0, 1, 3}, step_days : {1, 6},
     start_mm_dd : {<<9, 1>>, <<9, 25>>},
     latest_return_mm_dd : {<<10, 5>>, <<9, 20>>}]

WeekendParams ==
    [start_offset_days : {0, 60}, horizon_days : {3, 10}, max_pairs : {0, 1, 3},
     max_trip_len_days : {1, 4}, depart_dows : {{4, 5}, {2}, {}},
     return_dows : {{6, 0}, {3}}]

RouteUnknownRule ==
    [id |-> "MIA", origin |-> "GRU", destination |-> "MIA",
     adults |-> 1, children |-> 0, cabin |-> "ECONOMY",
     rule |-> "MONTHLY_WINDOW",
     rule_params |-> NoRuleParams,
     departure_date |-> None, return_date |-> None,
     watch |-> [max_stops |-> None, prefer_airlines |-> {},
                target_price_total |-> None, alert_drop_pct |-> None]]

RouteNoOrigin ==
    [RouteUnknownRule EXCEPT !.id = "GIG", !.origin = NoneStr, !.destination = "GIG",
                             !.rule = "",
                             !.departure_date = date(2027, 3, 5),
                             !.return_date = date(2027, 3, 8)]

RouteNoIdEconomy == [RouteFixed EXCEPT !.id = NoneStr]

RouteNoIdBusiness ==
    [RouteFixed EXCEPT !.id = NoneStr, !.cabin = "BUSINESS",
                       !.departure_date = date(2027, 2, 12),
                       !.return_date = date(2027, 2, 15)]

RuleConfigs ==
    {<<[RouteRome EXCEPT !.rule_params = p], RouteWeekend, RouteFixed>> : p \in RomeParams}
    \cup {<<RouteRome, [RouteWeekend EXCEPT !.rule_params = p], RouteFixed>> :
             p \in WeekendParams}
    \cup {<<RouteUnknownRule, RouteRome, RouteWeekend, RouteFixed>>,
          <<RouteRome, RouteWeekend, RouteFixed, RouteNoOrigin>>,
          <<RouteRome, RouteWeekend, RouteNoIdEconomy, RouteNoIdBusiness>>,
          <<RouteRome, RouteWeekend>>,
          <<>>}

RouteIds == {RoutesYaml[i].id : i \in 1..Len(RoutesYaml)}

Todays == {[year |-> 2026, month |-> 8, day |-> 10]}

RuleTodays ==
    {[year |-> 2026, month |-> 8, day |-> 10], [year |-> 2026, month |-> 10, day |-> 20],
     [year |-> 2026, month |-> 11, day |-> 15], [year |-> 2027, month |-> 12, day |-> 30]}

(***************************************************************************)
(* Rules: expand routes.                                                   *)
(***************************************************************************)
RECURSIVE RomeLoop(_, _, _, _, _, _, _)
RomeLoop(base, cur, max_dep, trip_days, step_days, max_pairs, pairs) ==
    IF cur <= max_dep /\ Len(pairs) < max_pairs
    THEN RomeLoop(base, cur + step_days, max_dep, trip_days, step_days, max_pairs,
                  Append(pairs, [base EXCEPT !.departure_date = cur,
                                             !.return_date = cur + trip_days]))
    ELSE pairs

(* Mutant: the last departure is the deadline itself, the trip length not  *)
(* taken off.                                                              *)
expand_rome_15d_window_NoMargin(base, today) ==
    LET rp == base.rule_params
        year == IF today.month <= 10 THEN today.year ELSE today.year + 1
        min_dep == date(year, rp.start_mm_dd[1], rp.start_mm_dd[2])
        latest_return == date(year, rp.latest_return_mm_dd[1], rp.latest_return_mm_dd[2])
    IN  RomeLoop(base, min_dep, latest_return, rp.trip_days, rp.step_days, rp.max_pairs, <<>>)

expand_rome_15d_window(base, today) ==
    LET rp == base.rule_params
        year == IF today.month <= 10 THEN today.year ELSE today.year + 1
        min_dep == date(year, rp.start_mm_dd[1], rp.start_mm_dd[2])
        latest_return == date(year, rp.latest_return_mm_dd[1], rp.latest_return_mm_dd[2])
        max_dep == latest_return - rp.trip_days
    IN  RomeLoop(base, min_dep, max_dep, rp.trip_days, rp.step_days, rp.max_pairs, <<>>)

(* rp.get("depart_dows") or [4, 5]; rp.get("return_dows") or [6, 0] *)
depart_dows(rp) == IF rp.depart_dows = {} THEN {4, 5} ELSE rp.depart_dows

return_dows(rp) == IF rp.return_dows = {} THEN {6, 0} ELSE rp.return_dows

(* Mutant: the weekday of the return day is not tested. *)
RECURSIVE WeekendLoop_AnyReturnDay(_, _, _, _, _)
WeekendLoop_AnyReturnDay(base, dep, d, end_day, pairs) ==
    LET rp == base.rule_params IN
    IF dep > end_day THEN pairs
    ELSE IF weekday(dep) \notin depart_dows(rp)
         THEN WeekendLoop_AnyReturnDay(base, dep + 1, 1, end_day, pairs)
    ELSE IF d > rp.max_trip_len_days \/ dep + d > end_day
         THEN WeekendLoop_AnyReturnDay(base, dep + 1, 1, end_day, pairs)
    ELSE LET added == Append(pairs, [base EXCEPT !.departure_date = dep,
                                                 !.return_date = dep + d])
         IN  IF Len(added) >= rp.max_pairs THEN added
             ELSE WeekendLoop_AnyReturnDay(base, dep, d + 1, end_day, added)

RECURSIVE WeekendLoop(_, _, _, _, _)
WeekendLoop(base, dep, d, end_day, pairs) ==
    LET rp == base.rule_params IN
    IF dep > end_day THEN pairs
    ELSE IF weekday(dep) \notin depart_dows(rp)
         THEN WeekendLoop(base, dep + 1, 1, end_day, pairs)
    ELSE IF d > rp.max_trip_len_days \/ dep + d > end_day
         THEN WeekendLoop(base, dep + 1, 1, end_day, pairs)
    ELSE IF weekday(dep + d) \notin return_dows(rp)
         THEN WeekendLoop(base, dep, d + 1, end_day, pairs)
    ELSE LET added == Append(pairs, [base EXCEPT !.departure_date = dep,
                                                 !.return_date = dep + d])
         IN  IF Len(added) >= rp.max_pairs THEN added
             ELSE WeekendLoop(base, dep, d + 1, end_day, added)

expand_weekend_window(base, today) ==
    LET rp == base.rule_params
        base_day == date(today.year, today.month, today.day) + rp.start_offset_days
        end_day == base_day + rp.horizon_days
    IN  WeekendLoop(base, base_day, 1, end_day, <<>>)

(* Mutant: the explicit fallback is taken without looking at the dates. *)
expand_one_route_NoDateTest(base, today) ==
    IF base.rule = "ROME_15D_WINDOW" THEN expand_rome_15d_window(base, today)
    ELSE IF base.rule = "WEEKEND_WINDOW" THEN expand_weekend_window(base, today)
    ELSE <<base>>

expand_one_route(base, today) ==
    IF base.rule = "ROME_15D_WINDOW" THEN expand_rome_15d_window(base, today)
    ELSE IF base.rule = "WEEKEND_WINDOW" THEN expand_weekend_window(base, today)
    ELSE IF base.departure_date # None /\ base.return_date # None THEN <<base>>
    ELSE <<>>

RECURSIVE ExpandAll(_, _)
ExpandAll(routes, today) ==
    IF routes = <<>> THEN <<>>
    ELSE expand_one_route(Head(routes), today) \o ExpandAll(Tail(routes), today)

(***************************************************************************)
(* The upstream API.  An offer carries its price object, its validating    *)
(* carriers and, per itinerary, the number of segments.  A response is its *)
(* status, its Retry-After header, whether its body parses as JSON and the *)
(* "data" list of the body.                                                *)
(***************************************************************************)
OfferA ==
    [price |-> [grandTotal |-> 500, total |-> 480],
     validatingAirlineCodes |-> <<"AZ">>, itineraries |-> <<1, 1>>]

OfferB ==
    [price |-> [grandTotal |-> 300, total |-> None],
     validatingAirlineCodes |-> <<"LA">>, itineraries |-> <<2, 2>>]

OfferC ==
    [price |-> [grandTotal |-> None, total |-> 700],
     validatingAirlineCodes |-> <<>>, itineraries |-> <<>>]

OfferD ==
    [price |-> [grandTotal |-> 500, total |-> 500],
     validatingAirlineCodes |-> <<"LA">>, itineraries |-> <<1, 1>>]

OfferE ==
    [price |-> [grandTotal |-> 300, total |-> 300],
     validatingAirlineCodes |-> <<"LA">>, itineraries |-> <<1, 2>>]

OfferF ==
    [price |-> [grandTotal |-> None, total |-> None],
     validatingAirlineCodes |-> <<"AZ">>, itineraries |-> <<1, 1>>]

Bodies == {<<>>, <<OfferA>>, <<OfferB>>, <<OfferC, OfferA>>}

(* The data lists of the offer-selection specification: every list of at   *)
(* most two offers.                                                        *)
PickOffers == {OfferA, OfferB, OfferC, OfferD, OfferE, OfferF}

PickBodies == {<<>>} \cup {<<a>> : a \in PickOffers}
                    \cup {<<a, b>> : a \in PickOffers, b \in PickOffers}

RetryAfters == {None, 1, 3}

Responses ==
    {[status_code |-> 200, retry_after |-> None, json_ok |-> TRUE, data |-> b] : b \in Bodies}
    \cup {[status_code |-> 200, retry_after |-> None, json_ok |-> FALSE, data |-> <<>>]}
    \cup {[status_code |-> s, retry_after |-> None, json_ok |-> TRUE, data |-> <<>>] :
            s \in {401, 404}}
    \cup {[status_code |-> s, retry_after |-> h, json_ok |-> TRUE, data |-> <<>>] :
            s \in {429, 500}, h \in RetryAfters}

PickResponses ==
    {[status_code |-> 200, retry_after |-> None, json_ok |-> TRUE, data |-> b] :
        b \in PickBodies}

RuleResponses ==
    {[status_code |-> 200, retry_after |-> None, json_ok |-> TRUE, data |-> <<OfferA>>],
     [status_code |-> 404, retry_after |-> None, json_ok |-> TRUE, data |-> <<>>]}

(* One response per way a call can go: offers, not found, throttled with  *)
(* and without a hint, server error.                                       *)
StatusResponses ==
    {[status_code |-> 200, retry_after |-> None, json_ok |-> TRUE, data |-> <<OfferA>>],
     [status_code |-> 404, retry_after |-> None, json_ok |-> TRUE, data |-> <<>>],
     [status_code |-> 429, retry_after |-> None, json_ok |-> TRUE, data |-> <<>>],
     [status_code |-> 429, retry_after |-> 3, json_ok |-> TRUE, data |-> <<>>],
     [status_code |-> 500, retry_after |-> None, json_ok |-> TRUE, data |-> <<>>]}

(* The responses of the rotation: one offer at 500, one offer at 300, not  *)
(* found.                                                                  *)
TurnResponses ==
    {[status_code |-> 200, retry_after |-> None, json_ok |-> TRUE, data |-> <<OfferA>>],
     [status_code |-> 200, retry_after |-> None, json_ok |-> TRUE, data |-> <<OfferE>>],
     [status_code |-> 404, retry_after |-> None, json_ok |-> TRUE, data |-> <<>>]}

NoResponse == [status_code |-> None, retry_after |-> None, json_ok |-> TRUE, data |-> <<>>]

(***************************************************************************)
(* Offer normalization (best/alerts).                                      *)
(***************************************************************************)
extract_price_total(offer) ==
    IF offer.price.grandTotal # None THEN offer.price.grandTotal
    ELSE IF offer.price.total # None THEN offer.price.total
    ELSE None

extract_carrier(offer) ==
    IF Len(offer.validatingAirlineCodes) > 0 THEN offer.validatingAirlineCodes[1]
    ELSE "?"

RECURSIVE TotalStops(_)
TotalStops(itins) ==
    IF itins = <<>> THEN 0
    ELSE (IF Head(itins) - 1 > 0 THEN Head(itins) - 1 ELSE 0) + TotalStops(Tail(itins))

extract_stops(offer) ==
    IF offer.itineraries = <<>> THEN None ELSE TotalStops(offer.itineraries)

(* The candidate tuple (om, price, carrier, stops) of one OfferMeta. *)
Candidate(om) ==
    [om |-> om, price |-> extract_price_total(om.offer),
     carrier |-> extract_carrier(om.offer), stops |-> extract_stops(om.offer)]

(* Whether the max_stops filter of pick_best_offer keeps the candidate. *)
StopsOk(c, watch) ==
    ~(watch.max_stops # None /\ c.stops # None /\ c.stops > watch.max_stops)

RECURSIVE Candidates(_, _)
Candidates(offers_meta, watch) ==
    IF offers_meta = <<>> THEN <<>>
    ELSE LET c == Candidate(Head(offers_meta))
             rest == Candidates(Tail(offers_meta), watch)
         IN  IF c.price = None THEN rest
             ELSE IF ~StopsOk(c, watch) THEN rest
             ELSE <<c>> \o rest

(* Mutant: among equal prices the candidate accumulated last wins. *)
RECURSIVE FirstMin_LastOfTies(_)
FirstMin_LastOfTies(cands) ==
    IF Len(cands) = 1 THEN cands[1]
    ELSE LET m == FirstMin_LastOfTies(SubSeq(cands, 1, Len(cands) - 1))
         IN  IF cands[Len(cands)].price <= m.price THEN cands[Len(cands)] ELSE m

(* candidates.sort(key=price) is stable: element 0 is the first minimum. *)
RECURSIVE FirstMin(_)
FirstMin(cands) ==
    IF Len(cands) = 1 THEN cands[1]
    ELSE LET m == FirstMin(SubSeq(cands, 1, Len(cands) - 1))
         IN  IF cands[Len(cands)].price < m.price THEN cands[Len(cands)] ELSE m

(* Mutant: the preferred carriers are not looked at. *)
pick_best_offer_NoPreference(offers_meta, watch) ==
    LET candidates == Candidates(offers_meta, watch)
    IN  IF candidates = <<>> THEN <<>> ELSE <<FirstMin(candidates)>>

(* pick_best_offer: <<>> for None, else a one-element sequence. *)
pick_best_offer(offers_meta, watch) ==
    LET candidates == Candidates(offers_meta, watch)
        preferred == SelectSeq(candidates, LAMBDA c : c.carrier \in watch.prefer_airlines)
    IN  IF candidates = <<>> THEN <<>>
        ELSE IF watch.prefer_airlines # {} /\ preferred # <<>> THEN <<FirstMin(preferred)>>
        ELSE <<FirstMin(candidates)>>

(* The record build_best_and_alerts stores for a route without a pick. *)
NoOfferRecord(base) ==
    [id |-> base.id, origin |-> base.origin, destination |-> base.destination,
     carrier |-> NoneStr, stops |-> None, price_total |-> None,
     departure_date |-> None, return_date |-> None,
     note |-> "no_offers_after_filters"]

(* best_payload of build_best_and_alerts. *)
BestPayload(base, c) ==
    [id |-> base.id, origin |-> base.origin, destination |-> base.destination,
     carrier |-> c.carrier, stops |-> c.stops, price_total |-> c.price,
     departure_date |-> c.om.departure_date, return_date |-> c.om.return_date]

(* best_by_route[route_id] of build_best_and_alerts. *)
BestEntry(base, offers_meta) ==
    LET best_pick == pick_best_offer(offers_meta, base.watch)
    IN  IF best_pick = <<>> THEN NoOfferRecord(base) ELSE BestPayload(base, best_pick[1])

(* Mutant: the target alert demands a price strictly below the target. *)
TargetAlert_Strict(base, c) ==
    LET target == base.watch.target_price_total
    IN  IF target # None /\ c.price < target
        THEN <<[type |-> "TARGET_PRICE", route_id |-> base.id,
                current_price |-> c.price, target_price |-> target,
                carrier |-> c.carrier, stops |-> c.stops,
                departure_date |-> c.om.departure_date,
                return_date |-> c.om.return_date]>>
        ELSE <<>>

(* The target alert of one route: <<>> or one alert. *)
TargetAlert(base, c) ==
    LET target == base.watch.target_price_total
    IN  IF target # None /\ c.price <= target
        THEN <<[type |-> "TARGET_PRICE", route_id |-> base.id,
                current_price |-> c.price, target_price |-> target,
                carrier |-> c.carrier, stops |-> c.stops,
                departure_date |-> c.om.departure_date,
                return_date |-> c.om.return_date]>>
        ELSE <<>>

(* prev.get("price_total") of the record read from BEST_FILE, None if absent. *)
PrevPrice(prev_best, route_id) ==
    IF route_id \in DOMAIN prev_best THEN prev_best[route_id].price_total ELSE None

(* The drop alert of one route.  delta_pct = num / den * 100, kept exact:  *)
(* delta_pct >= drop_pct iff num * 100 >= drop_pct * den for den > 0.  For *)
(* the prices and percentages of this model the float quotient of the code *)
(* and the exact one compare alike with drop_pct.                          *)
DropAlert(base, c, prev_best) ==
    LET prev_price == PrevPrice(prev_best, base.id)
        drop_pct == base.watch.alert_drop_pct
    IN  IF prev_price # None /\ prev_price # 0 /\ drop_pct # None /\ drop_pct # 0
           /\ (prev_price - c.price) * 100 >= drop_pct * prev_price
        THEN <<[type |-> "DROP_PCT", route_id |-> base.id,
                current_price |-> c.price, prev_best_price |-> prev_price,
                delta_pct |-> [num |-> (prev_price - c.price) * 100, den |-> prev_price],
                carrier |-> c.carrier, stops |-> c.stops,
                departure_date |-> c.om.departure_date,
                return_date |-> c.om.return_date]>>
        ELSE <<>>

RECURSIVE BuildAlerts(_, _, _)
BuildAlerts(routes, offers, prev_best) ==
    IF routes = <<>> THEN <<>>
    ELSE LET base == Head(routes)
             best_pick == pick_best_offer(offers[base.id], base.watch)
             mine == IF best_pick = <<>> THEN <<>>
                     ELSE TargetAlert(base, best_pick[1])
                          \o DropAlert(base, best_pick[1], prev_best)
         IN  mine \o BuildAlerts(Tail(routes), offers, prev_best)

(* Mutant: the best map is written first and read back as the baseline of  *)
(* the drop alert.                                                         *)
build_best_and_alerts_OwnBaseline(prev_best, routes, offers) ==
    LET best_by_route ==
            [k \in {routes[i].id : i \in 1..Len(routes)} |->
                BestEntry(routes[CHOOSE i \in 1..Len(routes) : routes[i].id = k], offers[k])]
    IN  [best_by_route |-> best_by_route,
         alerts |-> BuildAlerts(routes, offers, best_by_route)]

(* build_best_and_alerts: the pair (best_by_route, alerts). *)
build_best_and_alerts(prev_best, routes, offers) ==
    [best_by_route |->
        [k \in {routes[i].id : i \in 1..Len(routes)} |->
            BestEntry(routes[CHOOSE i \in 1..Len(routes) : routes[i].id = k], offers[k])],
     alerts |-> BuildAlerts(routes, offers, prev_best)]

(***************************************************************************)
(* State.  The files of data/ persist from run to run; the rest is the     *)
(* process of the current run of main().                                   *)
(***************************************************************************)
VARIABLES
    BEST_FILE,            \* best_offers.json: [run_id, by_route]
    ALERTS_FILE,          \* alerts.json: [run_id, alerts]
    HISTORY_FILE,         \* history.jsonl: the lines, oldest first
    STATE_FILE,           \* state.json: the statistics of the last run
    RR_FILE,              \* rr_state.json: idx
    ROUTES_FILE,          \* routes.yaml: the list under "routes"
    SAFE_MODE,            \* environment knobs
    FORCE_ROUTE_ID,
    MAX_429_BEFORE_ABORT,
    pc,                   \* where main() stands; "idle": no run in progress
    outcome,              \* how the last run ended: "none", "completed", "fatal"
    rid,                  \* run_id: the number of the run
    today,                \* datetime.now().date() of the run
    selected_route_id,
    expanded_routes,
    idx,                  \* enumerate(expanded_routes, start=1)
    total_calls, ok_calls, err_calls, empty_ok_calls, offers_saved,
    status_counts,
    consecutive_429,
    throttle_sleeps,      \* time.sleep(REQUEST_SLEEP_SEC) calls of the run so far
    offers_by_route,
    errors_sample,        \* keys of debug["errors_sample"]
    token,                \* the bearer token of the run, None before the exchange
    tokens_issued,        \* tokens the credential endpoint has issued so far
    attempt, delay, last_resp,   \* request_with_retry
    http_log              \* this request_with_retry: per HTTP request, the status it got,
                          \* the bearer token it sent, the Retry-After header of the
                          \* response and the seconds slept after it

files == <<BEST_FILE, ALERTS_FILE, HISTORY_FILE, STATE_FILE, RR_FILE>>
env == <<ROUTES_FILE, SAFE_MODE, FORCE_ROUTE_ID, MAX_429_BEFORE_ABORT>>
counters == <<total_calls, ok_calls, err_calls, empty_ok_calls, offers_saved,
              status_counts, consecutive_429, throttle_sleeps, offers_by_route,
              errors_sample>>
call == <<attempt, delay, last_resp, http_log>>
run == <<rid, today, selected_route_id, expanded_routes>>
vars == <<files, env, pc, outcome, run, idx, counters, token, tokens_issued, call>>

EmptyDict == [k \in {} |-> 0]

DictGet(d, k, default) == IF k \in DOMAIN d THEN d[k] ELSE default

DictSet(d, k, v) == [x \in DOMAIN d \cup {k} |-> IF x = k THEN v ELSE d[x]]

(* retries=2 at the call of request_with_retry in amadeus_search_offers. *)
Retries == 2

(* The cap of the backoff delay, in seconds. *)
DelayCap == 10

Max(a, b) == IF a >= b THEN a ELSE b

Min(a, b) == IF a <= b THEN a ELSE b

(* str(err["_status"]) *)
StatusStr(s) ==
    CASE s = 200 -> "200" [] s = 401 -> "401" [] s = 404 -> "404"
      [] s = 429 -> "429" [] s = 500 -> "500" [] OTHER -> "unknown"

(* The deterministic fallback of main for a route without id. *)
FallbackId(r) ==
    r.destination \o "_" \o r.origin \o "_"
        \o ToString(r.adults) \o "A" \o ToString(r.children) \o "C"

(* "ensure each route has an id" *)
EnsureIds(routes) ==
    [i \in 1..Len(routes) |->
        IF routes[i].id = NoneStr THEN [routes[i] EXCEPT !.id = FallbackId(routes[i])]
        ELSE routes[i]]

IdsOf(routes) == {routes[i].id : i \in 1..Len(routes)}

(* routes_base of main, ids ensured. *)
routes_base == EnsureIds(ROUTES_FILE)

(* validate_immutable passes: no required origin or destination missing. *)
validate_immutable(routes) ==
    /\ {"CGH", "GRU"} \subseteq {routes[i].origin : i \in 1..Len(routes)}
    /\ {"CWB", "FCO", "NVT"} \subseteq {routes[i].destination : i \in 1..Len(routes)}

(* main gets past its configuration: a route list, the immutable rules,    *)
(* and under SAFE_MODE a FORCE_ROUTE_ID that names a route.                *)
ConfigOk ==
    /\ ROUTES_FILE # <<>>
    /\ validate_immutable(routes_base)
    /\ (SAFE_MODE /\ FORCE_ROUTE_ID # "") => FORCE_ROUTE_ID \in IdsOf(routes_base)

(* The state before the first run: no file of data/ exists yet. *)
InitState ==
    /\ BEST_FILE = [run_id |-> None, by_route |-> EmptyDict]
    /\ ALERTS_FILE = [run_id |-> None, alerts |-> <<>>]
    /\ HISTORY_FILE = <<>>
    /\ STATE_FILE = [run_id |-> None, total_calls |-> 0, ok_calls |-> 0, err_calls |-> 0,
                     empty_ok_calls |-> 0, offers_saved |-> 0, status_counts |-> EmptyDict]
    /\ RR_FILE = [idx |-> 0]
    /\ FORCE_ROUTE_ID \in {"", "CWB", "NVT"}
    /\ MAX_429_BEFORE_ABORT \in 1..Max429Env
    /\ pc = "idle"
    /\ outcome = "none"
    /\ rid = 0
    /\ selected_route_id = NoneStr
    /\ expanded_routes = <<>>
    /\ idx = 1
    /\ total_calls = 0 /\ ok_calls = 0 /\ err_calls = 0
    /\ empty_ok_calls = 0 /\ offers_saved = 0
    /\ status_counts = EmptyDict
    /\ consecutive_429 = 0
    /\ throttle_sleeps = 0
    /\ offers_by_route = [k \in IdsOf(routes_base) |-> <<>>]
    /\ errors_sample = {}
    /\ token = None
    /\ tokens_issued = 0
    /\ attempt = 0 /\ delay = 1 /\ last_resp = NoResponse
    /\ http_log = <<>>

(* Successive runs under the default SAFE_MODE=1. *)
Init ==
    /\ ROUTES_FILE = RoutesYaml
    /\ today \in Todays
    /\ InitState
    /\ SAFE_MODE = TRUE

(* One run, with SAFE_MODE on or off. *)
InitRun ==
    /\ ROUTES_FILE = RoutesYaml
    /\ today \in Todays
    /\ InitState
    /\ SAFE_MODE \in BOOLEAN

(* One run under SAFE_MODE=1 whose calls all succeed. *)
InitPick ==
    /\ ROUTES_FILE = RoutesYaml
    /\ today \in Todays
    /\ InitState
    /\ SAFE_MODE = TRUE

(* Successive runs under SAFE_MODE=1 without FORCE_ROUTE_ID: the           *)
(* round-robin rotation.                                                   *)
InitTurns ==
    /\ ROUTES_FILE = RoutesYaml
    /\ today \in Todays
    /\ InitState
    /\ SAFE_MODE = TRUE
    /\ FORCE_ROUTE_ID = ""
    /\ MAX_429_BEFORE_ABORT = 1

(* One run over all routes, for each routes.yaml of RuleConfigs and each   *)
(* day of RuleTodays.                                                      *)
InitRules ==
    /\ ROUTES_FILE \in RuleConfigs
    /\ today \in RuleTodays
    /\ InitState
    /\ SAFE_MODE = FALSE
    /\ FORCE_ROUTE_ID = ""
    /\ MAX_429_BEFORE_ABORT = 1

(***************************************************************************)
(* Round-robin route picker (SAFE): the picked id and the RR_FILE it       *)
(* leaves.                                                                 *)
(***************************************************************************)
(* Mutant: the index written back is not reduced modulo the list length. *)
rr_pick_route_id_NoWrap(routes, force, rr) ==
    IF force # "" THEN [picked |-> force, rr |-> rr]
    ELSE LET picked == routes[(rr.idx % Len(routes)) + 1].id
         IN  [picked |-> picked, rr |-> [idx |-> rr.idx + 1]]

rr_pick_route_id(routes, force, rr) ==
    IF force # "" THEN [picked |-> force, rr |-> rr]
    ELSE LET picked == routes[(rr.idx % Len(routes)) + 1].id
         IN  [picked |-> picked, rr |-> [idx |-> (rr.idx + 1) % Len(routes)]]

(* routes_to_run of main. *)
RoutesToRun(routes, safe, selected) ==
    IF safe THEN SelectSeq(routes, LAMBDA r : r.id = selected) ELSE routes

(***************************************************************************)
(* main(), from its start to the token exchange: configuration, route      *)
(* selection, expansion, counters.                                         *)
(***************************************************************************)
StartRun(max_runs) ==
    /\ pc = "idle"
    /\ rid < max_runs
    /\ ConfigOk
    /\ LET rr == rr_pick_route_id(routes_base, FORCE_ROUTE_ID, RR_FILE)
           sel == IF SAFE_MODE THEN rr.picked ELSE NoneStr
       IN  /\ RR_FILE' = IF SAFE_MODE THEN rr.rr ELSE RR_FILE
           /\ selected_route_id' = sel
           /\ expanded_routes' = ExpandAll(RoutesToRun(routes_base, SAFE_MODE, sel), today)
    /\ rid' = rid + 1
    /\ idx' = 1
    /\ total_calls' = 0 /\ ok_calls' = 0 /\ err_calls' = 0
    /\ empty_ok_calls' = 0 /\ offers_saved' = 0
    /\ status_counts' = EmptyDict
    /\ consecutive_429' = 0
    /\ throttle_sleeps' = 0
    /\ offers_by_route' = [k \in IdsOf(routes_base) |-> <<>>]
    /\ errors_sample' = {}
    /\ token' = None
    /\ pc' = "token"
    /\ outcome' = "none"
    /\ UNCHANGED <<BEST_FILE, ALERTS_FILE, HISTORY_FILE, STATE_FILE, env, today,
                   tokens_issued, call>>

(* main raises before the token exchange: no route list, a violated        *)
(* immutable rule (SystemExit), or an unknown FORCE_ROUTE_ID.  No file is  *)
(* written.                                                                *)
ConfigError(max_runs) ==
    /\ pc = "idle"
    /\ rid < max_runs
    /\ ~ConfigOk
    /\ rid' = rid + 1
    /\ outcome' = "fatal"
    /\ UNCHANGED <<files, env, pc, today, selected_route_id, expanded_routes, idx,
                   counters, token, tokens_issued, call>>

(* Where main goes after one pass of the for loop. *)
AfterPass(next_idx, n, broke) ==
    IF broke \/ next_idx > n THEN "finish" ELSE "loop"

(* amadeus_get_token returns. *)
TokenOk ==
    /\ pc = "token"
    /\ tokens_issued' = tokens_issued + 1
    /\ token' = tokens_issued + 1
    /\ pc' = AfterPass(1, Len(expanded_routes), FALSE)
    /\ UNCHANGED <<files, env, outcome, run, idx, counters, call>>

(* Mutant: the except branch records the token error and does not re-raise. *)
TokenError_Swallowed ==
    /\ pc = "token"
    /\ errors_sample' = errors_sample \cup {"TOKEN"}
    /\ pc' = AfterPass(1, Len(expanded_routes), FALSE)
    /\ outcome' = "fatal"
    /\ UNCHANGED <<files, env, run, idx, total_calls, ok_calls, err_calls,
                   empty_ok_calls, offers_saved, status_counts, consecutive_429,
                   throttle_sleeps, offers_by_route, token, tokens_issued, call>>

(* amadeus_get_token raises: the except branch of main, which re-raises. *)
TokenError ==
    /\ pc = "token"
    /\ errors_sample' = errors_sample \cup {"TOKEN"}
    /\ STATE_FILE' = [run_id |-> rid, total_calls |-> 0, ok_calls |-> 0, err_calls |-> 1,
                      empty_ok_calls |-> 0, offers_saved |-> 0,
                      status_counts |-> DictSet(EmptyDict, "TOKEN_ERROR", 1)]
    /\ BEST_FILE' = [run_id |-> rid, by_route |-> EmptyDict]
    /\ ALERTS_FILE' = [run_id |-> rid, alerts |-> <<>>]
    /\ pc' = "idle"
    /\ outcome' = "fatal"
    /\ UNCHANGED <<HISTORY_FILE, RR_FILE, env, run, idx, total_calls, ok_calls, err_calls,
                   empty_ok_calls, offers_saved, status_counts, consecutive_429,
                   throttle_sleeps, offers_by_route, token, tokens_issued, call>>

(***************************************************************************)
(* The for loop of main: one pass starts a call of amadeus_search_offers,  *)
(* which enters request_with_retry.                                        *)
(***************************************************************************)
BeginCall ==
    /\ pc = "loop"
    /\ expanded_routes[idx].origin # NoneStr
    /\ expanded_routes[idx].destination # NoneStr
    /\ total_calls' = total_calls + 1
    /\ attempt' = 0
    /\ delay' = 1
    /\ last_resp' = NoResponse
    /\ http_log' = <<>>
    /\ pc' = "request"
    /\ UNCHANGED <<files, env, outcome, run, idx, ok_calls, err_calls, empty_ok_calls,
                   offers_saved, status_counts, consecutive_429, throttle_sleeps,
                   offers_by_route, errors_sample, token, tokens_issued>>

(* The pass of the for loop for an instance without "origin" or            *)
(* "destination": r["origin"] raises KeyError while the arguments of the   *)
(* call are built, and main ends there without writing its files.          *)
CallCrash ==
    /\ pc = "loop"
    /\ \/ expanded_routes[idx].origin = NoneStr
       \/ expanded_routes[idx].destination = NoneStr
    /\ total_calls' = total_calls + 1
    /\ pc' = "idle"
    /\ outcome' = "fatal"
    /\ UNCHANGED <<files, env, run, idx, ok_calls, err_calls, empty_ok_calls,
                   offers_saved, status_counts, consecutive_429, throttle_sleeps,
                   offers_by_route, errors_sample, token, tokens_issued, call>>

(* Mutant: every error status is retried. *)
Retryable_AnyError(status) == status >= 400

(* retry only for 429 / 5xx *)
Retryable(status) == status = 429 \/ (500 <= status /\ status <= 599)

(* Mutant: a response with a retry hint is followed by a sleep of exactly  *)
(* the hint.                                                               *)
SleepDelay_HintOnly(cur, retry_after) ==
    IF retry_after # None THEN retry_after ELSE cur

(* The delay request_with_retry sleeps after a retryable response. *)
SleepDelay(cur, retry_after) ==
    IF retry_after # None THEN Max(cur, retry_after) ELSE cur

(* Mutant: the loop of request_with_retry has no bound. *)
HasAttemptLeft_Always(n) == TRUE

(* Mutant: one attempt more than the caller asked for. *)
HasAttemptLeft_OneMore(n) == n < Retries + 1

(* Whether the for loop of request_with_retry has another attempt left. *)
HasAttemptLeft(n) == n < Retries

(* One pass of the for loop of request_with_retry: one HTTP request. *)
Request(resp) ==
    /\ pc = "request"
    /\ attempt' = attempt + 1
    /\ last_resp' = resp
    /\ IF resp.status_code < 400
       THEN /\ pc' = "returned"
            /\ http_log' = Append(http_log, [status_code |-> resp.status_code,
                                             token |-> token,
                                             retry_after |-> resp.retry_after,
                                             slept |-> None])
            /\ UNCHANGED delay
       ELSE IF Retryable(resp.status_code)
       THEN /\ http_log' = Append(http_log, [status_code |-> resp.status_code,
                                             token |-> token,
                                             retry_after |-> resp.retry_after,
                                             slept |-> SleepDelay(delay, resp.retry_after)])
            /\ delay' = Min(SleepDelay(delay, resp.retry_after) * 2, DelayCap)
            /\ pc' = IF HasAttemptLeft(attempt + 1) THEN "request" ELSE "returned"
       ELSE /\ pc' = "returned"
            /\ http_log' = Append(http_log, [status_code |-> resp.status_code,
                                             token |-> token,
                                             retry_after |-> resp.retry_after,
                                             slept |-> None])
            /\ UNCHANGED delay
    /\ UNCHANGED <<files, env, outcome, run, idx, counters, token, tokens_issued>>

(* Mutant: a 200 response without offers is returned as an error. *)
SearchResult_EmptyIsError(resp) ==
    IF resp.status_code >= 400 \/ ~resp.json_ok \/ resp.data = <<>>
    THEN [offers |-> <<>>, is_err |-> TRUE, status |-> resp.status_code]
    ELSE [offers |-> resp.data, is_err |-> FALSE, status |-> None]

(* The (offers, err) pair amadeus_search_offers returns for a response. *)
SearchResult(resp) ==
    IF resp.status_code >= 400
    THEN [offers |-> <<>>, is_err |-> TRUE, status |-> resp.status_code]
    ELSE IF ~resp.json_ok
    THEN [offers |-> <<>>, is_err |-> TRUE, status |-> resp.status_code]
    ELSE [offers |-> resp.data, is_err |-> FALSE, status |-> None]

(* The consecutive_429 counter after an error of status string stc. *)
Next429(count, stc) == IF stc = "429" THEN count + 1 ELSE 0

(* Mutant: the comparison of the circuit breaker is turned around, so any  *)
(* failed call ends the loop.                                              *)
BreakerTrips_Inverted(count, max) == count <= max

(* Mutant: the loop ends one 429 late. *)
BreakerTrips_Late(count, max) == count > max

(* The test that ends the for loop of main early. *)
BreakerTrips(count, max) == count >= max

(* Mutant: the throttle sleep sits after the error branch, whose continue  *)
(* skips it.                                                               *)
Throttle_SkippedOnError(n, res) == IF res.is_err THEN n ELSE n + 1

(* time.sleep(REQUEST_SLEEP_SEC) right after the call returned with res:   *)
(* the number of throttle sleeps of the run after it.                      *)
Throttle(n, res) == n + 1

(* The OfferMeta entries and the history lines of one successful call. *)
RECURSIVE MetaOf(_, _)
MetaOf(offers, r) ==
    IF offers = <<>> THEN <<>>
    ELSE <<[offer |-> Head(offers), departure_date |-> r.departure_date,
            return_date |-> r.return_date]>> \o MetaOf(Tail(offers), r)

RECURSIVE HistoryLines(_, _, _)
HistoryLines(offers, r, run_id) ==
    IF offers = <<>> THEN <<>>
    ELSE <<[run_id |-> run_id, route_key |-> r.id, origin |-> r.origin,
            destination |-> r.destination, departure_date |-> r.departure_date,
            return_date |-> r.return_date, adults |-> r.adults,
            children |-> r.children, cabin |-> r.cabin, offer |-> Head(offers)]>>
         \o HistoryLines(Tail(offers), r, run_id)

(* amadeus_search_offers returns and main handles the result: the throttle *)
(* sleep, the counters, the history lines, then break or the next pass.    *)
HandleResult ==
    /\ pc = "returned"
    /\ LET r == expanded_routes[idx]
           res == SearchResult(last_resp)
           stc == StatusStr(res.status)
           c429 == Next429(consecutive_429, stc)
       IN  IF res.is_err
           THEN /\ err_calls' = err_calls + 1
                /\ status_counts' = DictSet(status_counts, stc, DictGet(status_counts, stc, 0) + 1)
                /\ consecutive_429' = c429
                /\ errors_sample' = errors_sample \cup {r.id}
                /\ pc' = AfterPass(idx + 1, Len(expanded_routes),
                                   BreakerTrips(c429, MAX_429_BEFORE_ABORT))
                /\ UNCHANGED <<ok_calls, empty_ok_calls, offers_saved, offers_by_route,
                               HISTORY_FILE>>
           ELSE IF res.offers = <<>>
           THEN /\ ok_calls' = ok_calls + 1
                /\ empty_ok_calls' = empty_ok_calls + 1
                /\ status_counts' = DictSet(status_counts, "200_empty",
                                            DictGet(status_counts, "200_empty", 0) + 1)
                /\ pc' = AfterPass(idx + 1, Len(expanded_routes), FALSE)
                /\ UNCHANGED <<err_calls, offers_saved, consecutive_429, offers_by_route,
                               errors_sample, HISTORY_FILE>>
           ELSE /\ ok_calls' = ok_calls + 1
                /\ offers_saved' = offers_saved + Len(res.offers)
                /\ offers_by_route' =
                       [offers_by_route EXCEPT ![r.id] = @ \o MetaOf(res.offers, r)]
                /\ HISTORY_FILE' = HISTORY_FILE \o HistoryLines(res.offers, r, rid)
                /\ pc' = AfterPass(idx + 1, Len(expanded_routes), FALSE)
                /\ UNCHANGED <<err_calls, empty_ok_calls, status_counts, consecutive_429,
                               errors_sample>>
    /\ throttle_sleeps' = Throttle(throttle_sleeps, SearchResult(last_resp))
    /\ idx' = idx + 1
    /\ attempt' = 0 /\ delay' = 1 /\ last_resp' = NoResponse /\ http_log' = <<>>
    /\ UNCHANGED <<BEST_FILE, ALERTS_FILE, STATE_FILE, RR_FILE, env, outcome, run,
                   total_calls, token, tokens_issued>>

(* Mutant: after an early break the run writes the empty artifacts of the  *)
(* token-error branch instead of what it collected.                        *)
FinishRun_DropOnBreak ==
    /\ pc = "finish"
    /\ LET built == build_best_and_alerts(BEST_FILE.by_route, routes_base, offers_by_route)
           broke == consecutive_429 >= MAX_429_BEFORE_ABORT
       IN  /\ BEST_FILE' = [run_id |-> rid,
                            by_route |-> IF broke THEN EmptyDict ELSE built.best_by_route]
           /\ ALERTS_FILE' = [run_id |-> rid,
                              alerts |-> IF broke THEN <<>> ELSE built.alerts]
    /\ STATE_FILE' = [run_id |-> rid, total_calls |-> total_calls, ok_calls |-> ok_calls,
                      err_calls |-> err_calls, empty_ok_calls |-> empty_ok_calls,
                      offers_saved |-> offers_saved, status_counts |-> status_counts]
    /\ pc' = "idle"
    /\ outcome' = "completed"
    /\ UNCHANGED <<HISTORY_FILE, RR_FILE, env, run, idx, counters, token, tokens_issued, call>>

(* Mutant: an alert the previous feed already holds is not written again. *)
FinishRun_Dedup ==
    /\ pc = "finish"
    /\ LET built == build_best_and_alerts(BEST_FILE.by_route, routes_base, offers_by_route)
           old == {ALERTS_FILE.alerts[i] : i \in 1..Len(ALERTS_FILE.alerts)}
       IN  /\ BEST_FILE' = [run_id |-> rid, by_route |-> built.best_by_route]
           /\ ALERTS_FILE' = [run_id |-> rid,
                              alerts |-> SelectSeq(built.alerts, LAMBDA a : a \notin old)]
    /\ STATE_FILE' = [run_id |-> rid, total_calls |-> total_calls, ok_calls |-> ok_calls,
                      err_calls |-> err_calls, empty_ok_calls |-> empty_ok_calls,
                      offers_saved |-> offers_saved, status_counts |-> status_counts]
    /\ pc' = "idle"
    /\ outcome' = "completed"
    /\ UNCHANGED <<HISTORY_FILE, RR_FILE, env, run, idx, counters, token, tokens_issued, call>>

(* main after the for loop: best and alerts "always (even if empty)", then *)
(* the run statistics.                                                     *)
FinishRun ==
    /\ pc = "finish"
    /\ LET built == build_best_and_alerts(BEST_FILE.by_route, routes_base, offers_by_route)
       IN  /\ BEST_FILE' = [run_id |-> rid, by_route |-> built.best_by_route]
           /\ ALERTS_FILE' = [run_id |-> rid, alerts |-> built.alerts]
    /\ STATE_FILE' = [run_id |-> rid, total_calls |-> total_calls, ok_calls |-> ok_calls,
                      err_calls |-> err_calls, empty_ok_calls |-> empty_ok_calls,
                      offers_saved |-> offers_saved, status_counts |-> status_counts]
    /\ pc' = "idle"
    /\ outcome' = "completed"
    /\ UNCHANGED <<HISTORY_FILE, RR_FILE, env, run, idx, counters, token, tokens_issued, call>>

Next ==
    \/ StartRun(MaxRuns)
    \/ TokenOk
    \/ TokenError
    \/ BeginCall
    \/ \E resp \in Responses : Request(resp)
    \/ HandleResult
    \/ FinishRun

Spec == Init /\ [][Next]_vars

NextRun ==
    \/ StartRun(1)
    \/ TokenOk
    \/ TokenError
    \/ BeginCall
    \/ \E resp \in Responses : Request(resp)
    \/ HandleResult
    \/ FinishRun

SpecRun == InitRun /\ [][NextRun]_vars

(* One run that is not left unfinished: the process of main keeps taking   *)
(* its next step, and every HTTP request is answered (timeout=45).         *)
NextCalls ==
    \/ StartRun(1)
    \/ TokenOk
    \/ TokenError
    \/ BeginCall
    \/ \E resp \in StatusResponses : Request(resp)
    \/ HandleResult
    \/ FinishRun

SpecCalls == InitRun /\ [][NextCalls]_vars /\ WF_vars(NextCalls)

(* Offer selection: one run whose calls answer with the lists of           *)
(* PickBodies, so that build_best_and_alerts picks from every mix of them. *)
NextPick ==
    \/ StartRun(1)
    \/ TokenOk
    \/ BeginCall
    \/ \E resp \in PickResponses : Request(resp)
    \/ HandleResult
    \/ FinishRun

SpecPick == InitPick /\ [][NextPick]_vars

(* Configuration and date rules: one run per routes.yaml and day, whose    *)
(* calls answer with one offer or with 404.                                *)
NextRules ==
    \/ StartRun(1)
    \/ ConfigError(1)
    \/ TokenOk
    \/ BeginCall
    \/ CallCrash
    \/ \E resp \in RuleResponses : Request(resp)
    \/ HandleResult
    \/ FinishRun

SpecRules == InitRules /\ [][NextRules]_vars

NextTurns ==
    \/ StartRun(MaxTurns)
    \/ TokenOk
    \/ TokenError
    \/ BeginCall
    \/ \E resp \in TurnResponses : Request(resp)
    \/ HandleResult
    \/ FinishRun

SpecTurns == InitTurns /\ [][NextTurns]_vars

(***************************************************************************)
(* Properties.                                                             *)
(***************************************************************************)
RouteOf(k) == RoutesYaml[CHOOSE i \in 1..Len(RoutesYaml) : RoutesYaml[i].id = k]

RECURSIVE LinesToMeta(_)
LinesToMeta(lines) ==
    IF lines = <<>> THEN <<>>
    ELSE <<[offer |-> Head(lines).offer, departure_date |-> Head(lines).departure_date,
            return_date |-> Head(lines).return_date]>> \o LinesToMeta(Tail(lines))

(* The offers the history log holds for route k from run n, oldest first. *)
RunOffers(k, n) ==
    LinesToMeta(SelectSeq(HISTORY_FILE, LAMBDA l : l.run_id = n /\ l.route_key = k))

(* The price of the pick of run n for route k, None without a pick. *)
PickPrice(k, n) ==
    LET p == pick_best_offer(RunOffers(k, n), RouteOf(k).watch)
    IN  IF p = <<>> THEN None ELSE p[1].price

KnownPicks(k) == {PickPrice(k, n) : n \in 1..rid} \ {None}

MinOf(S) == CHOOSE x \in S : \A y \in S : x <= y

(* The statuses of the HTTP requests of the current call, in order. *)
Statuses == [i \in 1..Len(http_log) |-> http_log[i].status_code]

(* The backoff sleeps of the current call, in order. *)
Sleeps == SelectSeq(http_log, LAMBDA e : e.slept # None)

(* C1: after every completed run the best-price map holds, for each route  *)
(* key, the minimum of all known pick prices seen so far for that key.     *)
C1_BestIsMinimumOfPicks ==
    (pc = "idle" /\ outcome = "completed") =>
        \A k \in RouteIds :
            KnownPicks(k) # {} => PrevPrice(BEST_FILE.by_route, k) = MinOf(KnownPicks(k))

(* C2: once the map holds a known price for a route key, the end of a      *)
(* normal run never leaves an unknown (null) price there.                  *)
C2_KnownNeverBecomesUnknown ==
    [][\A k \in RouteIds :
          (pc = "finish" /\ PrevPrice(BEST_FILE.by_route, k) # None)
              => PrevPrice(BEST_FILE'.by_route, k) # None]_vars

(* C3: a run that aborts because the credential exchange failed leaves     *)
(* the persisted best-price map equal to the map before that run.          *)
C3_TokenFailureKeepsBestMap ==
    [][(pc = "token" /\ outcome' = "fatal") => BEST_FILE'.by_route = BEST_FILE.by_route]_vars

(* C4: within one run, once the consecutive-429 counter has reached the    *)
(* abort threshold, no further offer-search call and no further HTTP       *)
(* request is issued.                                                      *)
C4_NoCallAfterBreaker ==
    [][(pc # "idle" /\ consecutive_429 >= MAX_429_BEFORE_ABORT)
          => (total_calls' = total_calls /\ attempt' = attempt)]_vars

(* A run of at least three instances stopped by two consecutive 429 calls, *)
(* with instances left unqueried.                                          *)
C4_Witness ==
    /\ pc = "finish"
    /\ MAX_429_BEFORE_ABORT = 2
    /\ consecutive_429 = 2
    /\ total_calls = 2
    /\ Len(expanded_routes) > 2

(* C5: when the breaker trips before any instance returned an offer, the   *)
(* best-price map after the run is identical to the map before it (taken   *)
(* from a map that already holds a record for every route).                *)
C5_BreakerWithoutOffersKeepsBestMap ==
    [][(/\ pc = "finish"
        /\ consecutive_429 >= MAX_429_BEFORE_ABORT
        /\ \A k \in RouteIds : offers_by_route[k] = <<>>
        /\ DOMAIN BEST_FILE.by_route = RouteIds)
          => BEST_FILE'.by_route = BEST_FILE.by_route]_vars

(* C6: when the breaker trips after some instances returned offers, the    *)
(* run still ends with the best-price write and the alerts computed from   *)
(* the offers collected, whose history lines are all in the log.           *)
C6_BreakerKeepsPartialResults ==
    (pc = "idle" /\ outcome = "completed" /\ consecutive_429 >= MAX_429_BEFORE_ABORT) =>
        /\ STATE_FILE.offers_saved =
               Len(SelectSeq(HISTORY_FILE, LAMBDA l : l.run_id = rid))
        /\ \A k \in RouteIds :
              /\ k \in DOMAIN BEST_FILE.by_route
              /\ BEST_FILE.by_route[k].price_total = PickPrice(k, rid)
              /\ (/\ PickPrice(k, rid) # None
                  /\ RouteOf(k).watch.target_price_total # None
                  /\ PickPrice(k, rid) <= RouteOf(k).watch.target_price_total)
                    => \E i \in 1..Len(ALERTS_FILE.alerts) :
                          /\ ALERTS_FILE.alerts[i].type = "TARGET_PRICE"
                          /\ ALERTS_FILE.alerts[i].route_id = k
                          /\ ALERTS_FILE.alerts[i].current_price = PickPrice(k, rid)

(* A completed run whose breaker tripped after offers came in: a known     *)
(* best price, an alert and history lines of that run.                     *)
C6_Witness ==
    /\ pc = "idle" /\ outcome = "completed"
    /\ consecutive_429 >= MAX_429_BEFORE_ABORT
    /\ total_calls < Len(expanded_routes)
    /\ STATE_FILE.offers_saved > 0
    /\ \E k \in RouteIds : PrevPrice(BEST_FILE.by_route, k) # None
    /\ ALERTS_FILE.alerts # <<>>

(* C7, as claimed: a call whose responses start 429, 429 goes on to a      *)
(* third HTTP request, and returns the offers of a 200 that follows.       *)
C7_ThirdRequestAfterTwo429 ==
    (pc = "returned" /\ Len(http_log) >= 2
       /\ Statuses[1] = 429 /\ Statuses[2] = 429) => Len(http_log) >= 3

(* C7, amended: a call makes at most two HTTP requests.  After 429, 200 it *)
(* returns the offers of the 200 response after exactly one backoff sleep  *)
(* and surfaces no error; after 429, 429 it has slept twice and surfaces   *)
(* the 429 error.                                                          *)
C7_OneRetryThenResult ==
    (pc = "returned" /\ Statuses[1] = 429) =>
        /\ Len(http_log) = 2
        /\ (Statuses[2] = 200 /\ last_resp.json_ok) =>
              /\ Len(Sleeps) = 1
              /\ SearchResult(last_resp) =
                     [offers |-> last_resp.data, is_err |-> FALSE, status |-> None]
        /\ Statuses[2] = 429 =>
              /\ Len(Sleeps) = 2
              /\ SearchResult(last_resp) = [offers |-> <<>>, is_err |-> TRUE, status |-> 429]

(* A call that got 429 then 200 with offers. *)
C7_Witness ==
    /\ pc = "returned"
    /\ Statuses = <<429, 200>>
    /\ last_resp.data # <<>>

(* C8: a 4xx response other than 429, on any attempt, is the last HTTP     *)
(* request of its call, is followed by no backoff sleep, and the call      *)
(* surfaces an error carrying that status.                                 *)
C8_Other4xxEndsCall ==
    \A i \in 1..Len(http_log) :
        (400 <= Statuses[i] /\ Statuses[i] <= 499 /\ Statuses[i] # 429) =>
            /\ i = Len(http_log)
            /\ pc = "returned"
            /\ http_log[i].slept = None
            /\ SearchResult(last_resp) =
                   [offers |-> <<>>, is_err |-> TRUE, status |-> Statuses[i]]

(* A call ended by a 404 on its second attempt. *)
C8_Witness ==
    /\ pc = "returned"
    /\ Statuses = <<429, 404>>
    /\ Len(Sleeps) = 1

(* C9: a call that receives 401 is retried with a newly acquired token.    *)
C9_AuthErrorRefreshesToken ==
    \A i \in 1..Len(http_log) :
        (pc = "returned" /\ Statuses[i] = 401) =>
            /\ i < Len(http_log)
            /\ http_log[i + 1].token # http_log[i].token

(* C10: when the credential exchange fails, the run ends with a fatal      *)
(* error and has issued no offer-search call.                              *)
C10_TokenFailureIsFatal ==
    ("TOKEN" \in errors_sample) =>
        /\ pc = "idle"
        /\ outcome = "fatal"
        /\ total_calls = 0
        /\ http_log = <<>>
        /\ STATE_FILE.run_id = rid /\ STATE_FILE.total_calls = 0
        /\ \A i \in 1..Len(HISTORY_FILE) : HISTORY_FILE[i].run_id # rid

(* A run with instances to query that ended on the token error. *)
C10_Witness ==
    /\ outcome = "fatal"
    /\ "TOKEN" \in errors_sample
    /\ Len(expanded_routes) > 0

(* C11: a failed query of one instance never ends the run: it adds no      *)
(* offer and no history line, and unless the 429 breaker trips the next    *)
(* instance in order is queried; each pass of the loop queries the         *)
(* instance at the loop position.                                          *)
C11_FailureDoesNotEndRun ==
    [][/\ (pc = "returned" /\ SearchResult(last_resp).is_err) =>
             /\ offers_by_route' = offers_by_route
             /\ HISTORY_FILE' = HISTORY_FILE
             /\ offers_saved' = offers_saved
             /\ (consecutive_429' < MAX_429_BEFORE_ABORT /\ idx < Len(expanded_routes))
                   => (pc' = "loop" /\ idx' = idx + 1)
       /\ pc = "loop" =>
             (pc' = "request" /\ idx' = idx /\ total_calls' = idx)]_vars

(* The second instance of a run answers with offers after the first one    *)
(* failed.                                                                 *)
C11_Witness ==
    /\ pc = "returned"
    /\ idx = 2
    /\ err_calls = 1
    /\ consecutive_429 < MAX_429_BEFORE_ABORT
    /\ ~SearchResult(last_resp).is_err
    /\ last_resp.data # <<>>

(* C12: a successful response with an empty offer list counts as an ok     *)
(* call: it adds nothing to err_calls or to the error samples, leaves the  *)
(* consecutive-429 counter as it was and does not end the loop early.      *)
C12_EmptySuccessIsOk ==
    [][(/\ pc = "returned"
        /\ last_resp.status_code = 200 /\ last_resp.json_ok /\ last_resp.data = <<>>) =>
          /\ ok_calls' = ok_calls + 1
          /\ empty_ok_calls' = empty_ok_calls + 1
          /\ err_calls' = err_calls
          /\ errors_sample' = errors_sample
          /\ consecutive_429' = consecutive_429
          /\ idx < Len(expanded_routes) => pc' = "loop"]_vars

(* An empty success right after a 429 failure, one short of the threshold: *)
(* the loop goes on to the third instance.                                 *)
C12_Witness ==
    /\ pc = "loop"
    /\ idx = 3
    /\ MAX_429_BEFORE_ABORT = 2
    /\ consecutive_429 = 1
    /\ err_calls = 1
    /\ ok_calls = 1
    /\ empty_ok_calls = 1

(* C13: the fixed throttle sleep happens exactly once after every          *)
(* offer-search call, whatever the call returned, and before the next call *)
(* starts.                                                                 *)
C13_OneThrottleSleepPerCall ==
    /\ pc \in {"request", "returned"} => throttle_sleeps = total_calls - 1
    /\ pc \in {"loop", "finish"} => throttle_sleeps = total_calls
    /\ (pc = "idle" /\ outcome = "completed") => throttle_sleeps = total_calls

(* A third call starts after one failed and one successful call, each      *)
(* followed by its sleep.                                                  *)
C13_Witness ==
    /\ pc = "request"
    /\ total_calls = 3
    /\ throttle_sleeps = 2
    /\ err_calls = 1
    /\ ok_calls = 1

(* The alerts of the given type a feed holds for route k. *)
AlertsIn(alerts, type, k) ==
    SelectSeq(alerts, LAMBDA a : a.type = type /\ a.route_id = k)

AlertsOf(type, k) == AlertsIn(ALERTS_FILE.alerts, type, k)

(* C14: after a completed run the feed holds a target-price alert for a    *)
(* route if and only if the route declares a target and the price of the   *)
(* run's pick is at most the target; the alert carries that price and that *)
(* target.                                                                 *)
C14_TargetAlertIffAtOrBelowTarget ==
    (pc = "idle" /\ outcome = "completed") =>
        \A k \in RouteIds :
            LET target == RouteOf(k).watch.target_price_total
                price == BEST_FILE.by_route[k].price_total
            IN  /\ AlertsOf("TARGET_PRICE", k) # <<>>
                      <=> (target # None /\ price # None /\ price <= target)
                /\ \A i \in 1..Len(AlertsOf("TARGET_PRICE", k)) :
                      /\ AlertsOf("TARGET_PRICE", k)[i].current_price = price
                      /\ AlertsOf("TARGET_PRICE", k)[i].target_price = target
                /\ Len(AlertsOf("TARGET_PRICE", k)) <= 1

(* One run over all routes: a pick at the target fires, a pick above the   *)
(* target does not, and a pick of a route without target does not.         *)
C14_Witness ==
    /\ pc = "idle" /\ outcome = "completed"
    /\ BEST_FILE.by_route["ROMA"].price_total = 500
    /\ AlertsOf("TARGET_PRICE", "ROMA") # <<>>
    /\ BEST_FILE.by_route["CWB"].price_total = 500
    /\ AlertsOf("TARGET_PRICE", "CWB") = <<>>
    /\ BEST_FILE.by_route["NVT"].price_total = 300
    /\ AlertsOf("TARGET_PRICE", "NVT") = <<>>

(* C15: the run's feed holds a percent-drop alert for a route if and only  *)
(* if the route configures a drop percentage, the persisted previous best  *)
(* is known and non-zero, and (previous - current) * 100 / previous is at  *)
(* least the percentage.                                                   *)
C15_DropAlertIffDropAtLeastPct ==
    [][pc = "finish" =>
          \A k \in RouteIds :
              LET pct == RouteOf(k).watch.alert_drop_pct
                  prev == PrevPrice(BEST_FILE.by_route, k)
                  cur == PrevPrice(BEST_FILE'.by_route, k)
              IN  AlertsOf("DROP_PCT", k)' # <<>>
                      <=> (/\ pct # None /\ prev # None /\ prev # 0 /\ cur # None
                           /\ (prev - cur) * 100 >= pct * prev)]_vars

(* C16: the baseline of the percent-drop alert is the price the best map   *)
(* held before the run's write: every drop alert of the run carries it,    *)
(* and a drop from it by the configured (non-zero) percentage is alerted;  *)
(* the run's own pick is never the baseline.                               *)
C16_BaselineIsPersistedBeforeWrite ==
    [][pc = "finish" =>
          \A k \in RouteIds :
              LET pct == RouteOf(k).watch.alert_drop_pct
                  prev == PrevPrice(BEST_FILE.by_route, k)
                  cur == PrevPrice(BEST_FILE'.by_route, k)
                  mine == AlertsOf("DROP_PCT", k)'
              IN  /\ \A i \in 1..Len(mine) :
                        /\ mine[i].prev_best_price = prev
                        /\ mine[i].current_price = cur
                  /\ (/\ pct # None /\ pct # 0 /\ prev # None /\ prev # 0 /\ cur # None
                      /\ (prev - cur) * 100 >= pct * prev) => mine # <<>>]_vars

(* A run that picked 300 after the map held 500: the drop alert measures   *)
(* from 500 and the map now holds 300.                                     *)
C16_Witness ==
    /\ pc = "idle" /\ outcome = "completed"
    /\ rid >= 2
    /\ BEST_FILE.by_route["CWB"].price_total = 300
    /\ Len(AlertsOf("DROP_PCT", "CWB")) = 1
    /\ AlertsOf("DROP_PCT", "CWB")[1].prev_best_price = 500
    /\ AlertsOf("DROP_PCT", "CWB")[1].current_price = 300

(* C17: alerts are not deduplicated across runs.  Whatever the feed held   *)
(* before, the feed a run writes holds the target alert of every route     *)
(* whose pick of this run meets the target, and holds nothing but alerts   *)
(* computed from this run's picks: one per type and route at most, each    *)
(* with the price of this run's pick, under this run's id.                 *)
C17_FeedIsRecomputedEveryRun ==
    [][pc = "finish" =>
          /\ ALERTS_FILE'.run_id = rid
          /\ \A k \in RouteIds :
                LET target == RouteOf(k).watch.target_price_total
                IN  (target # None /\ PickPrice(k, rid) # None /\ PickPrice(k, rid) <= target)
                        => AlertsIn(ALERTS_FILE'.alerts, "TARGET_PRICE", k) # <<>>
          /\ \A i \in 1..Len(ALERTS_FILE'.alerts) :
                LET a == ALERTS_FILE'.alerts[i]
                IN  /\ a.current_price = PickPrice(a.route_id, rid)
                    /\ Len(AlertsIn(ALERTS_FILE'.alerts, a.type, a.route_id)) = 1]_vars

(* The third run in a row whose pick meets the target: its feed holds the  *)
(* alert again.                                                            *)
C17_Witness ==
    /\ pc = "idle" /\ outcome = "completed"
    /\ rid = 3
    /\ \A n \in 1..3 : PickPrice("CWB", n) = 300
    /\ ALERTS_FILE.run_id = 3
    /\ Len(AlertsOf("TARGET_PRICE", "CWB")) = 1

(* The offers the current run accumulated for route k, in query order. *)
Offered(k) == RunOffers(k, rid)

(* The positions in Offered(k) of the offers with a price that pass the    *)
(* max-stops filter, and of those that survive the carrier preference too. *)
Eligible(k) ==
    {i \in 1..Len(Offered(k)) :
        /\ Candidate(Offered(k)[i]).price # None
        /\ StopsOk(Candidate(Offered(k)[i]), RouteOf(k).watch)}

Preferred(k) ==
    {i \in Eligible(k) : Candidate(Offered(k)[i]).carrier \in RouteOf(k).watch.prefer_airlines}

Survivors(k) == IF Preferred(k) # {} THEN Preferred(k) ELSE Eligible(k)

PriceAt(k, i) == Candidate(Offered(k)[i]).price

(* C18: the pick is, among the candidates that survive the filters, one of *)
(* minimum price, and among those of minimum price the one accumulated     *)
(* first; without survivors there is no pick.                              *)
C18_PickIsFirstCheapestSurvivor ==
    (pc = "idle" /\ outcome = "completed") =>
        \A k \in RouteIds :
            LET rec == BEST_FILE.by_route[k]
            IN  IF Survivors(k) = {} THEN rec.price_total = None
                ELSE LET j == CHOOSE i \in Survivors(k) :
                                 \A h \in Survivors(k) :
                                     \/ PriceAt(k, i) < PriceAt(k, h)
                                     \/ (PriceAt(k, i) = PriceAt(k, h) /\ i <= h)
                         c == Candidate(Offered(k)[j])
                     IN  /\ rec.price_total = c.price
                         /\ rec.carrier = c.carrier
                         /\ rec.stops = c.stops
                         /\ rec.departure_date = c.om.departure_date
                         /\ rec.return_date = c.om.return_date

(* Two instances of one route answer with the same price: the pick is the  *)
(* offer of the earlier instance.                                          *)
C18_Witness ==
    /\ pc = "idle" /\ outcome = "completed"
    /\ Len(expanded_routes) = 2
    /\ Len(Offered("ROMA")) = 2
    /\ PriceAt("ROMA", 1) = PriceAt("ROMA", 2)
    /\ Offered("ROMA")[1].departure_date = expanded_routes[1].departure_date
    /\ Offered("ROMA")[2].departure_date = expanded_routes[2].departure_date
    /\ Survivors("ROMA") = {1, 2}
    /\ BEST_FILE.by_route["ROMA"].departure_date = expanded_routes[1].departure_date

(* C19: with a preferred-carrier set, the pick's carrier is in the set     *)
(* whenever an eligible offer of such a carrier exists, and the pick is    *)
(* the cheapest of these even if an eligible offer of another carrier is   *)
(* cheaper; when no eligible offer matches, the pick is the cheapest of    *)
(* all eligible offers.                                                    *)
C19_PreferredCarrierWins ==
    (pc = "idle" /\ outcome = "completed") =>
        \A k \in RouteIds :
            LET rec == BEST_FILE.by_route[k]
                prefer == RouteOf(k).watch.prefer_airlines
            IN  prefer # {} =>
                    /\ Preferred(k) # {} =>
                          /\ rec.carrier \in prefer
                          /\ rec.price_total = MinOf({PriceAt(k, i) : i \in Preferred(k)})
                    /\ (Preferred(k) = {} /\ Eligible(k) # {}) =>
                          rec.price_total = MinOf({PriceAt(k, i) : i \in Eligible(k)})

(* The pick is the preferred carrier's offer at 500 although an eligible   *)
(* offer of another carrier costs 300.                                     *)
C19_Witness ==
    /\ pc = "idle" /\ outcome = "completed"
    /\ BEST_FILE.by_route["ROMA"].carrier = "AZ"
    /\ BEST_FILE.by_route["ROMA"].price_total = 500
    /\ \E i \in Eligible("ROMA") :
          /\ PriceAt("ROMA", i) = 300
          /\ Candidate(Offered("ROMA")[i]).carrier = "LA"

(* C20: with a max-stops ceiling configured, the pick has a known number   *)
(* of stops that is at most the ceiling: an offer without itinerary data   *)
(* is never picked.                                                        *)
C20_PickWithinCeilingAndWellFormed ==
    (pc = "idle" /\ outcome = "completed") =>
        \A k \in RouteIds :
            LET rec == BEST_FILE.by_route[k]
                max_stops == RouteOf(k).watch.max_stops
            IN  (max_stops # None /\ rec.price_total # None) =>
                    (rec.stops # None /\ rec.stops <= max_stops)

(* The instances of the current run expanded from the routes of a rule. *)
InstancesOf(rule) == SelectSeq(expanded_routes, LAMBDA r : r.rule = rule)

(* C21: every instance of the windowed-trip rule returns trip_days after   *)
(* its departure and not later than the latest-return deadline of the      *)
(* window it departs in, whatever the start, trip length, deadline, step   *)
(* and max pairs.                                                          *)
C21_WindowedTripWithinDeadline ==
    \A i \in 1..Len(InstancesOf("ROME_15D_WINDOW")) :
        LET r == InstancesOf("ROME_15D_WINDOW")[i]
            rp == r.rule_params
        IN  /\ r.return_date = r.departure_date + rp.trip_days
            /\ \E y \in {today.year, today.year + 1} :
                  /\ date(y, rp.start_mm_dd[1], rp.start_mm_dd[2]) <= r.departure_date
                  /\ r.return_date
                        <= date(y, rp.latest_return_mm_dd[1], rp.latest_return_mm_dd[2])

(* Three instances of seven days, the last of them returning on the        *)
(* deadline of 20 September.                                               *)
C21_Witness ==
    /\ pc = "token"
    /\ Len(InstancesOf("ROME_15D_WINDOW")) = 3
    /\ InstancesOf("ROME_15D_WINDOW")[1].rule_params.trip_days = 7
    /\ InstancesOf("ROME_15D_WINDOW")[3].return_date = date(2026, 9, 20)

(* C22: every instance of the rolling-weekend rule departs on an allowed   *)
(* departure weekday (Friday or Saturday when none is configured), returns *)
(* on an allowed return weekday (Sunday or Monday when none is             *)
(* configured), and returns after its departure by at most                 *)
(* max_trip_len_days days.                                                 *)
C22_WeekendInstancesOnAllowedDays ==
    \A i \in 1..Len(InstancesOf("WEEKEND_WINDOW")) :
        LET r == InstancesOf("WEEKEND_WINDOW")[i]
            rp == r.rule_params
        IN  /\ weekday(r.departure_date) \in depart_dows(rp)
            /\ weekday(r.return_date) \in return_dows(rp)
            /\ r.return_date > r.departure_date
            /\ r.return_date - r.departure_date <= rp.max_trip_len_days

(* Three weekend instances, one of them from Friday to Monday. *)
C22_Witness ==
    /\ pc = "token"
    /\ Len(InstancesOf("WEEKEND_WINDOW")) = 3
    /\ \E i \in 1..3 :
          /\ weekday(InstancesOf("WEEKEND_WINDOW")[i].departure_date) = 4
          /\ weekday(InstancesOf("WEEKEND_WINDOW")[i].return_date) = 0
          /\ InstancesOf("WEEKEND_WINDOW")[i].return_date
                 = InstancesOf("WEEKEND_WINDOW")[i].departure_date + 3

(* Whether a route names no known rule and lacks an explicit date. *)
NoRuleNoDates(r) ==
    /\ r.rule \notin {"ROME_15D_WINDOW", "WEEKEND_WINDOW"}
    /\ (r.departure_date = None \/ r.return_date = None)

(* C23: a route with an unrecognized rule name and no explicit dates gives *)
(* no instance and no error: the run is not fatal, the instances of the    *)
(* run are those of the other routes, and the completed run has queried    *)
(* each of them.                                                           *)
C23_UnknownRuleIsSkipped ==
    (rid = 1 /\ ConfigOk /\ \E i \in 1..Len(routes_base) : NoRuleNoDates(routes_base[i])) =>
        /\ outcome # "fatal"
        /\ \A j \in 1..Len(expanded_routes) : ~NoRuleNoDates(expanded_routes[j])
        /\ expanded_routes =
               ExpandAll(SelectSeq(routes_base, LAMBDA r : ~NoRuleNoDates(r)), today)
        /\ (pc = "idle" /\ outcome = "completed") => total_calls = Len(expanded_routes)

(* A completed run over four routes, the first of unknown rule: the calls  *)
(* of the other three were made and the map holds an empty record for the  *)
(* skipped route.                                                          *)
C23_Witness ==
    /\ pc = "idle" /\ outcome = "completed"
    /\ ROUTES_FILE[1].rule = "MONTHLY_WINDOW"
    /\ total_calls = 4
    /\ ok_calls > 0
    /\ BEST_FILE.by_route["MIA"].price_total = None

(* Whether routes.yaml has no route list or a route without origin or      *)
(* destination.                                                            *)
ConfigFailure ==
    \/ ROUTES_FILE = <<>>
    \/ \E i \in 1..Len(ROUTES_FILE) :
          ROUTES_FILE[i].origin = NoneStr \/ ROUTES_FILE[i].destination = NoneStr

(* C24: with a configuration failure the run ends at startup: no token is  *)
(* requested and no offer-search call or HTTP request is made.             *)
C24_ConfigFailureEndsAtStartup ==
    ConfigFailure =>
        /\ token = None /\ tokens_issued = 0
        /\ total_calls = 0
        /\ http_log = <<>>

(* C25: offers are never merged under one route_key when they come from    *)
(* RouteSpecs that differ in pax or cabin: the history lines of one run    *)
(* under one route_key agree on adults, children and cabin.                *)
C25_RouteKeyCollisionFree ==
    \A i, j \in 1..Len(HISTORY_FILE) :
        (/\ HISTORY_FILE[i].run_id = HISTORY_FILE[j].run_id
         /\ HISTORY_FILE[i].route_key = HISTORY_FILE[j].route_key) =>
            /\ HISTORY_FILE[i].adults = HISTORY_FILE[j].adults
            /\ HISTORY_FILE[i].children = HISTORY_FILE[j].children
            /\ HISTORY_FILE[i].cabin = HISTORY_FILE[j].cabin

(* C26: when FORCE_ROUTE_ID names a route, every offer-search call of the  *)
(* run is for that route, with safe mode on or off.                        *)
C26_ForcedRouteOnly ==
    (FORCE_ROUTE_ID \in IdsOf(routes_base) /\ pc \in {"request", "returned"}) =>
        expanded_routes[idx].id = FORCE_ROUTE_ID

(* C27: any call that does not end in 429 (offers, an empty success or     *)
(* another error) resets the consecutive-429 counter to zero.              *)
C27_Non429ResetsStreak ==
    [][(pc = "returned" /\ last_resp.status_code # 429) => consecutive_429' = 0]_vars

RECURSIVE Pow2(_)
Pow2(n) == IF n = 0 THEN 1 ELSE 2 * Pow2(n - 1)

(* Whether the k-th HTTP request of the current call got 429 or 5xx. *)
RetryableAt(k) ==
    Statuses[k] = 429 \/ (500 <= Statuses[k] /\ Statuses[k] <= 599)

DelayBefore(k) == IF k = 1 THEN 1 ELSE Min(2 * http_log[k - 1].slept, DelayCap)

C29_CallsAndRunsTerminate ==
    /\ [][/\ attempt' <= Retries
          /\ Len(http_log') <= Retries
          /\ total_calls' <= Len(expanded_routes')]_vars
    /\ (pc = "request") ~> (pc = "returned")
    /\ (pc = "token") ~> (pc = "idle")

(* A run of four instances that used both attempts of its last call. *)
C29_Witness ==
    /\ pc = "returned"
    /\ total_calls = 4
    /\ Len(expanded_routes) = 4
    /\ attempt = Retries

(* C30: when today is later than this year's latest-return deadline, the   *)
(* windowed-trip rule uses next year's window: none of its instances       *)
(* returns before today.                                                   *)
C30_PastWindowMovesToNextYear ==
    \A i \in 1..Len(InstancesOf("ROME_15D_WINDOW")) :
        LET r == InstancesOf("ROME_15D_WINDOW")[i]
            rp == r.rule_params
        IN  date(today.year, today.month, today.day)
                > date(today.year, rp.latest_return_mm_dd[1], rp.latest_return_mm_dd[2])
            => r.return_date >= date(today.year, today.month, today.day)

(* C31: the rolling-weekend rule produces at most one instance per         *)
(* departure date, and its return date is the first day, from 1 to         *)
(* max_trip_len_days days after the departure, whose weekday is an allowed *)
(* return weekday.                                                         *)
C31_WeekendFirstReturnDayOnly ==
    LET w == InstancesOf("WEEKEND_WINDOW") IN
    /\ \A i, j \in 1..Len(w) : w[i].departure_date = w[j].departure_date => i = j
    /\ \A i \in 1..Len(w) :
          LET rp == w[i].rule_params
              d == w[i].return_date - w[i].departure_date
          IN  /\ d \in 1..rp.max_trip_len_days
              /\ weekday(w[i].return_date) \in return_dows(rp)
              /\ \A e \in 1..(d - 1) :
                    weekday(w[i].departure_date + e) \notin return_dows(rp)

(* C32: the instances produced for one route by the windowed-trip rule or  *)
(* by the rolling-weekend rule are never more than its max_pairs, for      *)
(* every max_pairs of 0 or more.                                           *)
C32_AtMostMaxPairs ==
    \A i \in 1..Len(expanded_routes) :
        LET r == expanded_routes[i] IN
        r.rule \in {"ROME_15D_WINDOW", "WEEKEND_WINDOW"} =>
            Len(SelectSeq(expanded_routes, LAMBDA x : x.id = r.id))
                <= r.rule_params.max_pairs

(* The largest number of stops of one itinerary: segments - 1, at least 0. *)
RECURSIVE MaxStops(_)
MaxStops(itins) ==
    IF itins = <<>> THEN 0
    ELSE LET h == IF Head(itins) - 1 > 0 THEN Head(itins) - 1 ELSE 0
             t == MaxStops(Tail(itins))
         IN  IF h > t THEN h ELSE t

(* C33: the stop count recorded for a picked offer is the maximum over its *)
(* itineraries of (segments - 1); a round trip of two segments out and two *)
(* segments back counts one stop.                                          *)
C33_StopsIsMaxOverItineraries ==
    (pc = "idle" /\ outcome = "completed") =>
        \A k \in RouteIds :
            LET rec == BEST_FILE.by_route[k]
                p == pick_best_offer(Offered(k), RouteOf(k).watch)
            IN  (p # <<>> /\ p[1].om.offer.itineraries # <<>>) =>
                    rec.stops = MaxStops(p[1].om.offer.itineraries)

(* Why route k, all of whose instances were queried, has no price in the   *)
(* record of the run: "filtered" (offers came back, none survived),        *)
(* "empty" (every call succeeded without offers), "failed" (its one call   *)
(* failed); "other" when the run did not query all instances or the calls  *)
(* of the route ended differently from one another.                        *)
NoPriceCase(k) ==
    LET n == Len(SelectSeq(expanded_routes, LAMBDA r : r.id = k)) IN
    IF Offered(k) # <<>> THEN "filtered"
    ELSE IF n = 0 \/ total_calls # Len(expanded_routes) THEN "other"
    ELSE IF k \notin errors_sample THEN "empty"
    ELSE IF n = 1 THEN "failed"
    ELSE "other"

(* C34: the record of a run tells the three no-price outcomes of a route   *)
(* apart: routes without a price whose outcomes differ (none survived the  *)
(* filters, no offers returned, all calls failed) carry different notes.   *)
C34_NoPriceNotesDistinguish ==
    (pc = "idle" /\ outcome = "completed") =>
        \A k1, k2 \in RouteIds :
            LET r1 == BEST_FILE.by_route[k1]
                r2 == BEST_FILE.by_route[k2]
            IN  (/\ r1.price_total = None
                 /\ r2.price_total = None
                 /\ NoPriceCase(k1) # "other"
                 /\ NoPriceCase(k2) # "other"
                 /\ NoPriceCase(k1) # NoPriceCase(k2)) => r1.note # r2.note

(* C35: every offer-search call of a run, whether it returned offers, an   *)
(* empty list or an error, appends exactly one record to the history log,  *)
(* and no step of a run changes or removes a record the log already holds. *)
C35_OneHistoryRecordPerCall ==
    [][/\ Len(HISTORY_FILE') >= Len(HISTORY_FILE)
       /\ SubSeq(HISTORY_FILE', 1, Len(HISTORY_FILE)) = HISTORY_FILE
       /\ (pc = "returned" /\ pc' # "returned") =>
              Len(HISTORY_FILE') = Len(HISTORY_FILE) + 1]_vars

(* C36: in the run statistics every run writes, a run ended by the circuit *)
(* breaker or by a credential failure included, total_calls is the sum of  *)
(* ok_calls and err_calls, and empty_ok_calls is at most ok_calls.         *)
C36_StatisticsAddUp ==
    STATE_FILE.run_id # None =>
        /\ STATE_FILE.total_calls = STATE_FILE.ok_calls + STATE_FILE.err_calls
        /\ STATE_FILE.empty_ok_calls <= STATE_FILE.ok_calls

(* C37: in safe mode without an override and with an unchanged list of N   *)
(* routes, the n-th run selects the route at position (n - 1) mod N of the *)
(* list, so that any N consecutive runs select each route exactly once,    *)
(* and the persisted index stays within 0..N-1.                            *)
C37_RoundRobinIsCyclic ==
    LET N == Len(routes_base) IN
    /\ RR_FILE.idx \in 0..(N - 1)
    /\ (SAFE_MODE /\ FORCE_ROUTE_ID = "" /\ rid >= 1) =>
           /\ selected_route_id = routes_base[((rid - 1) % N) + 1].id
           /\ RR_FILE.idx = rid % N

(* The fourth run of a list of three routes is back at the first route. *)
C37_Witness ==
    /\ pc = "idle" /\ outcome = "completed"
    /\ rid = 4
    /\ selected_route_id = "ROMA"
    /\ RR_FILE.idx = 1

(* C38: in safe mode with round-robin over the N routes of the list, when  *)
(* the pick of the selected route in this run is lower than its pick N     *)
(* runs ago, at its previous turn, by at least the configured drop         *)
(* percentage, the feed of this run holds the percent-drop alert of the    *)
(* route.                                                                  *)
C38_DropAlertAcrossTurns ==
    (pc = "idle" /\ outcome = "completed" /\ SAFE_MODE /\ FORCE_ROUTE_ID = "") =>
        LET N == Len(routes_base)
            k == selected_route_id
            drop == RouteOf(k).watch.alert_drop_pct
        IN  (/\ N >= 2
             /\ rid > N
             /\ drop # None /\ drop > 0
             /\ PickPrice(k, rid) # None
             /\ PickPrice(k, rid - N) # None
             /\ (PickPrice(k, rid - N) - PickPrice(k, rid)) * 100
                    >= drop * PickPrice(k, rid - N))
            => Len(AlertsOf("DROP_PCT", k)) >= 1

====
